---------------------------- MODULE Spec2Model ----------------------------
(***************************************************************************)
(* Availability writer of the sock ordering app                            *)
(* (scripts/scrape_availability.py).                                       *)
(*                                                                         *)
(* One run of main() is modelled statement group by statement group:       *)
(* load the catalog, seed every listed size to true, merge the built-in    *)
(* table, merge data/overrides.json when it exists, write                  *)
(* data/availability.json.  Python dictionaries are objects on a heap, so  *)
(* that sharing between the working map and BUILTIN_OVERRIDES is a         *)
(* property of the model and not an assumption.  JSON values are kept as   *)
(* their JSON tokens ("true", "0", "\"no\"") and bool() is modelled by     *)
(* Python truthiness.                                                      *)
(***************************************************************************)
EXTENDS Integers, Sequences, FiniteSets, TLC

VARIABLES
    catalogFile,   \* content of data/catalog.json on disk
    ovrFile,       \* content of data/overrides.json on disk
    outFile,       \* content of data/availability.json on disk
    pc,            \* position of the process in main()
    styles,        \* local variable styles of main()
    availability,  \* local variable availability: style id -> reference of its size dict
    heap,          \* dict objects: reference -> (size -> JSON value)
    exitCode,      \* -1 while running, 0 on normal exit, 1 after an uncaught exception
    printed,       \* whether "Wrote <path>" has been printed by this process
    clock,         \* wall clock (seconds), advances between runs
    afterBuiltin,  \* history: the working map, serialised, right after line 89
    fileStatus,    \* history: what the optional layer did ("pending", "absent", "applied", "failed")
    priorOut,      \* history: the output file as it was when the process started
    first          \* history: the styles written by the first successful run

vars == <<catalogFile, ovrFile, outFile, pc, styles, availability, heap,
          exitCode, printed, clock, afterBuiltin, fileStatus, priorOut, first>>

---------------------------------------------------------------------------
(* Bounds of the model *)
MaxRecords == 2    \* style records in the catalog
MaxSizes   == 1    \* size labels listed by one catalog record
MaxEntries == 2    \* styles named by data/overrides.json
MaxClock   == 2    \* the clock value of the last run (runs start at clock 1)

(* Universes the inputs are drawn from *)
CatIds     == {"sapphire", "newstyle"}
CatSizes   == {"T"}
FileStyles == {"sapphire", "newstyle"}
FileSizes  == {"T"}
JVals      == {"true", "false", "0", "\"no\""}   \* JSON tokens: two booleans, a number, a string

---------------------------------------------------------------------------
(* Python values *)
EmptyDict == [k \in {} |-> "true"]

Range(s) == {s[i] : i \in DOMAIN s}

Put(d, k, v) == [x \in (DOMAIN d) \cup {k} |-> IF x = k THEN v ELSE d[x]]

\* dict.get(k, default)
dict_get(d, k, default) == IF k \in DOMAIN d THEN d[k] ELSE default

\* bool(val) on a parsed JSON value, as its JSON boolean token
bool(val) == IF val \in {"false", "0", "null", "\"\"", "[]", "{}"} THEN "false" ELSE "true"

JBool == {"true", "false"}

\* references of dict objects
BuiltinRef(s) == <<"builtin", s>>
AvailRef(s)   == <<"avail", s>>
FileRef(s)    == <<"file", s>>
NotADict      == <<"scalar", "5">>     \* a parsed JSON value without .items()
IsDict(v)     == v[1] # "scalar"

---------------------------------------------------------------------------
(* BUILTIN_OVERRIDES, lines 35-54 *)
AllSizes == {"I", "T", "S", "M", "L", "XL", "XXL"}
AllTrue  == [z \in AllSizes |-> "true"]

BUILTIN_OVERRIDES ==
    [s \in {"sapphire", "bliss", "onyx", "leopard", "tiger", "blueblack",
            "skyblue", "purple", "partybag"} |->
        CASE s = "sapphire" -> [z \in AllSizes |-> IF z \in {"T", "S", "M"} THEN "false" ELSE "true"]
          [] s = "skyblue"  -> [z \in {"T", "S"} |-> "true"]
          [] s = "purple"   -> [z \in {"M"} |-> "true"]
          [] s = "partybag" -> [z \in {"ONESIZE"} |-> "true"]
          [] OTHER          -> AllTrue]

\* iteration order of BUILTIN_OVERRIDES.items()
BuiltinOrder == <<"sapphire", "bliss", "onyx", "leopard", "tiger", "blueblack",
                  "skyblue", "purple", "partybag">>

\* the module-level table as the interpreter builds it at import
BuiltinHeap == [r \in {BuiltinRef(s) : s \in DOMAIN BUILTIN_OVERRIDES} |-> BUILTIN_OVERRIDES[r[2]]]

BuiltinItems == [i \in DOMAIN BuiltinOrder |->
                    [style |-> BuiltinOrder[i], val |-> BuiltinRef(BuiltinOrder[i])]]

---------------------------------------------------------------------------
(* Files on disk *)
SeqsUpTo(S, n) == UNION {[1..k -> S] : k \in 0..n}

SizeLists == SeqsUpTo(CatSizes, MaxSizes)

\* a style record is a JSON object that may lack "id" or "sizes"
StyleRecords ==
    {[id |-> i, sizes |-> z] : i \in CatIds, z \in SizeLists}
    \cup {[id |-> i] : i \in CatIds}
    \cup {[sizes |-> z] : z \in SizeLists}
    \cup {EmptyDict}

CatalogFiles ==
    {[kind |-> "missing"], [kind |-> "invalid"], [kind |-> "list"],
     [kind |-> "object", value |-> EmptyDict]}
    \cup {[kind |-> "object", value |-> [styles |-> ss]] : ss \in SeqsUpTo(StyleRecords, MaxRecords)}

\* what one style of overrides.json maps to: a size mapping or something else
SizeMaps == UNION {[D -> JVals] : D \in SUBSET FileSizes}

FileEntries == {[style |-> s, isdict |-> TRUE, items |-> m] : s \in FileStyles, m \in SizeMaps}
               \cup {[style |-> s, isdict |-> FALSE, items |-> EmptyDict] : s \in FileStyles}

\* a parsed JSON object has each key once
DistinctStyles(es) == \A i, j \in DOMAIN es : i # j => es[i].style # es[j].style

OverrideFiles ==
    {[kind |-> "absent"], [kind |-> "invalid"], [kind |-> "list"]}
    \cup {[kind |-> "object", entries |-> es] :
            es \in {e \in SeqsUpTo(FileEntries, MaxEntries) : DistinctStyles(e)}}

NoFile   == [exists |-> FALSE, updatedAt |-> 0, styles |-> EmptyDict]
StaleDoc == [exists |-> TRUE, updatedAt |-> 0,
             styles |-> [s \in {"retired"} |-> [z \in {"T"} |-> "true"]]]

\* json.dump of the working map: the nested mapping, references resolved
Serialise(base, hp) == [s \in DOMAIN base |-> hp[base[s]]]

---------------------------------------------------------------------------
(* merge_overrides, lines 63-71 *)

\* lines 68-69 under the aliasing slip base[style_id] = size_map
NewEntryShared(base, hp, style, val) ==
    IF style \in DOMAIN base
    THEN [base |-> base, heap |-> hp]
    ELSE [base |-> Put(base, style, IF IsDict(val) THEN val ELSE AvailRef(style)),
          heap |-> IF IsDict(val) THEN hp ELSE Put(hp, AvailRef(style), EmptyDict)]

\* lines 68-69: if style_id not in base: base[style_id] = {}
NewEntry(base, hp, style, val) ==
    IF style \in DOMAIN base
    THEN [base |-> base, heap |-> hp]
    ELSE [base |-> Put(base, style, AvailRef(style)),
          heap |-> Put(hp, AvailRef(style), EmptyDict)]

\* lines 70-71 replacing the size dict instead of updating it
SetItemsReplace(tgt, src) == [z \in DOMAIN src |-> bool(src[z])]

\* lines 70-71 keeping a value that is already there (setdefault)
SetItemsKeep(tgt, src) ==
    [z \in (DOMAIN tgt) \cup (DOMAIN src) |-> IF z \in DOMAIN tgt THEN tgt[z] ELSE bool(src[z])]

\* lines 70-71 without the bool() coercion
SetItemsRaw(tgt, src) ==
    [z \in (DOMAIN tgt) \cup (DOMAIN src) |-> IF z \in DOMAIN src THEN src[z] ELSE tgt[z]]

\* lines 70-71: for sz, val in size_map.items(): base[style_id][sz] = bool(val)
SetItems(tgt, src) ==
    [z \in (DOMAIN tgt) \cup (DOMAIN src) |-> IF z \in DOMAIN src THEN bool(src[z]) ELSE tgt[z]]

\* the loop of line 67 from item i on; raised: size_map.items() failed (AttributeError)
RECURSIVE MergeLoop(_, _, _, _)
MergeLoop(base, hp, extra, i) ==
    IF i > Len(extra)
    THEN [base |-> base, heap |-> hp, raised |-> FALSE]
    ELSE LET e == extra[i]
             n == NewEntry(base, hp, e.style, e.val)
             t == n.base[e.style]
         IN  IF ~IsDict(e.val)
             THEN [base |-> n.base, heap |-> n.heap, raised |-> TRUE]
             ELSE MergeLoop(n.base,
                            [n.heap EXCEPT ![t] = SetItems(n.heap[t], n.heap[e.val])],
                            extra, i + 1)

\* merge_overrides that skips the styles base does not have
merge_overrides_filtered(base, hp, extra) ==
    MergeLoop(base, hp, SelectSeq(extra, LAMBDA e : e.style \in DOMAIN base), 1)

merge_overrides(base, hp, extra) == MergeLoop(base, hp, extra, 1)

---------------------------------------------------------------------------
(* main, lines 76-110 *)

\* line 84 when "sizes" is read like "id"
HasIdAndSizes(st) == {"id", "sizes"} \subseteq DOMAIN st

\* line 84: st["id"] raises KeyError on a record without the key
HasId(st) == "id" \in DOMAIN st

\* the loop of lines 83-86 from record i on
RECURSIVE SeedLoop(_, _, _, _)
SeedLoop(sts, i, base, hp) ==
    IF i > Len(sts)
    THEN [base |-> base, heap |-> hp, raised |-> FALSE]
    ELSE LET st == sts[i] IN
         IF ~HasId(st)
         THEN [base |-> base, heap |-> hp, raised |-> TRUE]
         ELSE LET szs == dict_get(st, "sizes", <<>>)
                  r   == AvailRef(st.id)
              IN  SeedLoop(sts, i + 1, Put(base, st.id, r),
                           Put(hp, r, [z \in Range(szs) |-> "true"]))

\* line 82 when the working map is started from the existing output document
CarriedAvailability ==
    [base |-> [s \in DOMAIN outFile.styles |-> AvailRef(s)],
     heap |-> [r \in (DOMAIN heap) \cup {AvailRef(s) : s \in DOMAIN outFile.styles} |->
                 IF r \in DOMAIN heap THEN heap[r] ELSE outFile.styles[r[2]]]]

\* line 82: availability = {}
NewAvailability == [base |-> EmptyDict, heap |-> heap]

\* json.load of overrides.json (line 95): the top-level items and the dicts it allocates
FileItems(es) == [i \in DOMAIN es |->
                    [style |-> es[i].style,
                     val   |-> IF es[i].isdict THEN FileRef(es[i].style) ELSE NotADict]]

FileHeap(es, hp) ==
    LET new == {FileRef(es[i].style) : i \in {j \in DOMAIN es : es[j].isdict}}
    IN  [r \in (DOMAIN hp) \cup new |->
            IF r \in new
            THEN es[CHOOSE i \in DOMAIN es : es[i].style = r[2]].items
            ELSE hp[r]]
  \* FileHeap picks the entry by its style; the styles of a parsed object are distinct

\* objects still referenced once file_overrides goes out of scope
Live(base, hp) == [r \in {x \in DOMAIN hp : x[1] = "builtin" \/ x \in Range(base)} |-> hp[r]]

histUnchanged == UNCHANGED <<afterBuiltin, fileStatus, priorOut, first>>
diskInUnchanged == UNCHANGED <<catalogFile, ovrFile>>

Crash ==
    /\ pc' = "crashed"
    /\ exitCode' = 1

\* lines 78-79 with the load wrapped in a try that falls back to an empty catalog
LoadCatalogLenient ==
    /\ pc = "load"
    /\ styles' = IF catalogFile.kind = "object"
                 THEN dict_get(catalogFile.value, "styles", <<>>) ELSE <<>>
    /\ pc' = "seed"
    /\ UNCHANGED <<outFile, availability, heap, exitCode, printed, clock>>
    /\ diskInUnchanged /\ histUnchanged

\* lines 78-79: catalog = load_json(CATALOG_PATH); styles = catalog.get("styles", [])
LoadCatalog ==
    /\ pc = "load"
    /\ IF catalogFile.kind = "object"
       THEN /\ styles' = dict_get(catalogFile.value, "styles", <<>>)
            /\ pc' = "seed"
            /\ UNCHANGED exitCode
       ELSE \* open() or json.load raises; a list has no .get
            /\ Crash
            /\ UNCHANGED styles
    /\ UNCHANGED <<outFile, availability, heap, printed, clock>>
    /\ diskInUnchanged /\ histUnchanged

\* lines 82-86
SeedDefaults ==
    /\ pc = "seed"
    /\ LET r == SeedLoop(styles, 1, NewAvailability.base, NewAvailability.heap) IN
         /\ availability' = r.base
         /\ heap' = r.heap
         /\ IF r.raised
            THEN Crash
            ELSE pc' = "builtin" /\ UNCHANGED exitCode
    /\ UNCHANGED <<outFile, styles, printed, clock>>
    /\ diskInUnchanged /\ histUnchanged

\* line 89
ApplyBuiltin ==
    /\ pc = "builtin"
    /\ LET r == merge_overrides(availability, heap, BuiltinItems) IN
         /\ availability' = r.base
         /\ heap' = r.heap
         /\ afterBuiltin' = Serialise(r.base, r.heap)
    /\ pc' = "file"
    /\ UNCHANGED <<outFile, styles, exitCode, printed, clock, fileStatus, priorOut, first>>
    /\ diskInUnchanged

\* lines 92-99
ApplyFile ==
    /\ pc = "file"
    /\ CASE ovrFile.kind = "absent" ->      \* os.path.exists is false
              /\ fileStatus' = "absent"
              /\ UNCHANGED <<availability, heap>>
         [] ovrFile.kind = "invalid" ->     \* json.load raises, except: pass
              /\ fileStatus' = "failed"
              /\ UNCHANGED <<availability, heap>>
         [] ovrFile.kind = "list" ->        \* extra.items() raises, except: pass
              /\ fileStatus' = "failed"
              /\ UNCHANGED <<availability, heap>>
         [] ovrFile.kind = "object" ->
              LET r == merge_overrides(availability, FileHeap(ovrFile.entries, heap),
                                       FileItems(ovrFile.entries)) IN
                /\ availability' = r.base
                /\ heap' = Live(r.base, r.heap)
                /\ fileStatus' = IF r.raised THEN "failed" ELSE "applied"
    /\ pc' = "write"
    /\ UNCHANGED <<outFile, styles, exitCode, printed, clock, afterBuiltin, priorOut, first>>
    /\ diskInUnchanged

\* lines 101-110, and the normal end of the process
WriteOutput ==
    /\ pc = "write"
    /\ outFile' = [exists |-> TRUE, updatedAt |-> clock,
                   styles |-> Serialise(availability, heap)]
    /\ printed' = TRUE
    /\ pc' = "done"
    /\ exitCode' = 0
    /\ first' = IF first.set THEN first
                ELSE [set |-> TRUE, styles |-> Serialise(availability, heap)]
    /\ UNCHANGED <<styles, availability, heap, clock, afterBuiltin, fileStatus, priorOut>>
    /\ diskInUnchanged

\* the script is started again later: a new process, nothing kept in memory
Rerun ==
    /\ pc \in {"done", "crashed"}
    /\ clock < MaxClock
    /\ clock' = clock + 1
    /\ pc' = "load"
    /\ styles' = <<>>
    /\ availability' = EmptyDict
    /\ heap' = BuiltinHeap
    /\ exitCode' = -1
    /\ printed' = FALSE
    /\ afterBuiltin' = EmptyDict
    /\ fileStatus' = "pending"
    /\ priorOut' = outFile
    /\ UNCHANGED <<outFile, first>>
    /\ diskInUnchanged

\* before the process reads anything, someone else may have removed or restored
\* the output document (the file at OUT_PATH, line 28, outlives the process)
ReplaceOutput ==
    /\ pc = "load"
    /\ outFile' \in {NoFile, StaleDoc} \ {outFile}
    /\ priorOut' = outFile'
    /\ UNCHANGED <<styles, availability, heap, exitCode, printed, clock, pc,
                   afterBuiltin, fileStatus, first>>
    /\ diskInUnchanged

Init ==
    /\ catalogFile \in CatalogFiles
    /\ ovrFile \in OverrideFiles
    /\ outFile \in {NoFile, StaleDoc}
    /\ pc = "load"
    /\ styles = <<>>
    /\ availability = EmptyDict
    /\ heap = BuiltinHeap
    /\ exitCode = -1
    /\ printed = FALSE
    /\ clock = 1
    /\ afterBuiltin = EmptyDict
    /\ fileStatus = "pending"
    /\ priorOut = outFile
    /\ first = [set |-> FALSE, styles |-> EmptyDict]

Next ==
    \/ LoadCatalog
    \/ SeedDefaults
    \/ ApplyBuiltin
    \/ ApplyFile
    \/ WriteOutput
    \/ Rerun
    \/ ReplaceOutput

Spec == Init /\ [][Next]_vars

---------------------------------------------------------------------------
(* Vocabulary of the properties *)

Out     == outFile.styles
Working == Serialise(availability, heap)

Has(m, s, z) == s \in DOMAIN m /\ z \in DOMAIN m[s]

\* the style records of the catalog as parsed
CatRecs == IF catalogFile.kind = "object"
           THEN dict_get(catalogFile.value, "styles", <<>>) ELSE <<>>

RecLists(st, s, z) == "id" \in DOMAIN st /\ st.id = s /\ z \in Range(dict_get(st, "sizes", <<>>))

\* the catalog lists size z for style s
Listed(s, z) == \E i \in DOMAIN CatRecs : RecLists(CatRecs[i], s, z)

\* the last record of style s lists size z
LastListed(s, z) ==
    \E i \in DOMAIN CatRecs :
        /\ RecLists(CatRecs[i], s, z)
        /\ \A j \in DOMAIN CatRecs : (j > i /\ "id" \in DOMAIN CatRecs[j]) => CatRecs[j].id # s

\* every record of the catalog has the "id" key
AllHaveId == \A i \in DOMAIN CatRecs : "id" \in DOMAIN CatRecs[i]

UniqueIds == \A i, j \in DOMAIN CatRecs :
                (i # j /\ "id" \in DOMAIN CatRecs[i] /\ "id" \in DOMAIN CatRecs[j])
                    => CatRecs[i].id # CatRecs[j].id

FileNames(s) == ovrFile.kind = "object"
                /\ \E i \in DOMAIN ovrFile.entries : ovrFile.entries[i].style = s

FileEntry(s) == ovrFile.entries[CHOOSE i \in DOMAIN ovrFile.entries : ovrFile.entries[i].style = s]

\* overrides.json gives a value for (s, z)
FileSpecifies(s, z) == FileNames(s) /\ FileEntry(s).isdict /\ z \in DOMAIN FileEntry(s).items

FileVal(s, z) == FileEntry(s).items[z]

BuiltinSpecifies(s, z) == Has(BUILTIN_OVERRIDES, s, z)

---------------------------------------------------------------------------
(* C1 *)

---------------------------------------------------------------------------
(* C2 *)

\* C2: when parsing or applying overrides.json fails, the written styles map
\* equals the one produced from the catalog and the built-in table alone.
C2_FailedFileIsIgnored ==
    (pc = "done" /\ fileStatus \in {"absent", "failed"}) =>
        /\ outFile.exists
        /\ exitCode = 0
        /\ Out = afterBuiltin

---------------------------------------------------------------------------
(* C3 *)

\* the value of the last layer that specifies (s, z)
LastLayer(s, z) ==
    IF FileSpecifies(s, z) THEN bool(FileVal(s, z))
    ELSE IF BuiltinSpecifies(s, z) THEN BUILTIN_OVERRIDES[s][z]
    ELSE "true"

---------------------------------------------------------------------------
(* C4 *)

\* C4 as stated: a pair the built-in table sets to false is false in the output.
C4_BuiltinFalseIsFalse ==
    pc = "done" =>
        \A s \in DOMAIN BUILTIN_OVERRIDES : \A z \in DOMAIN BUILTIN_OVERRIDES[s] :
            BUILTIN_OVERRIDES[s][z] = "false" => (Has(Out, s, z) /\ Out[s][z] = "false")

\* C4 amended: a pair the built-in table sets to false is false in the output,
\* whether or not the catalog lists it, provided overrides.json gives no value
\* for that pair.
C4_BuiltinFalseUnlessFile ==
    pc = "done" =>
        \A s \in DOMAIN BUILTIN_OVERRIDES : \A z \in DOMAIN BUILTIN_OVERRIDES[s] :
            (BUILTIN_OVERRIDES[s][z] = "false" /\ ~FileSpecifies(s, z)) =>
                (Has(Out, s, z) /\ Out[s][z] = "false")

C4_Witness ==
    /\ pc = "done"
    /\ Listed("sapphire", "T")
    /\ fileStatus = "applied"
    /\ FileNames("sapphire")
    /\ ~FileSpecifies("sapphire", "T")
    /\ Out["sapphire"]["T"] = "false"

---------------------------------------------------------------------------
(* C5 *)

\* C5: with the catalog file missing or unparseable the process ends in an
\* uncaught error with a non-zero exit code, the output file is as it was
\* when the process started, no layer has been applied and nothing printed.
C5_CatalogFailureIsFatal ==
    (catalogFile.kind \in {"missing", "invalid"} /\ pc # "load") =>
        /\ pc = "crashed"
        /\ exitCode = 1
        /\ outFile = priorOut
        /\ ~printed
        /\ availability = EmptyDict
        /\ heap = BuiltinHeap
        /\ fileStatus = "pending"

C5_Witness ==
    /\ pc = "crashed"
    /\ catalogFile.kind = "invalid"
    /\ ovrFile.kind = "object"
    /\ outFile = StaleDoc

---------------------------------------------------------------------------
(* C6 *)

Completed ==
    /\ exitCode = 0
    /\ printed
    /\ outFile.exists
    /\ outFile.updatedAt = clock
    /\ Out = Working

\* C6 as stated, for a catalog that parses to an object: whatever the object
\* holds, the run never ends in an error, and where it ends it has written
\* the output and exits with 0.
C6_OnlyLoadFailureIsFatal ==
    catalogFile.kind = "object" =>
        /\ pc # "crashed"
        /\ pc = "done" => Completed

\* C6 amended: whenever the catalog parses to an object whose style records
\* all have an id (the styles key and the sizes field may be missing), the
\* run never ends in an error, whatever the override file holds, and where
\* it ends it has written the output and exits with 0.
C6_FatalOnlyWithoutId ==
    (catalogFile.kind = "object" /\ AllHaveId) =>
        /\ pc # "crashed"
        /\ exitCode # 1
        /\ pc = "done" => Completed

C6_Witness ==
    /\ pc = "done"
    /\ exitCode = 0
    /\ fileStatus = "failed"
    /\ \E i \in DOMAIN CatRecs : DOMAIN CatRecs[i] = {"id"}

---------------------------------------------------------------------------
(* C7 *)

\* C7: every pair of the built-in table, and every pair of an override file
\* that was applied without error, is in the output, also when the catalog
\* does not list the style or the size.
C7_MergeIsAdditive ==
    pc = "done" =>
        /\ \A s \in DOMAIN BUILTIN_OVERRIDES : \A z \in DOMAIN BUILTIN_OVERRIDES[s] :
              Has(Out, s, z)
        /\ fileStatus = "applied" =>
              \A s \in FileStyles :
                  /\ FileNames(s) => s \in DOMAIN Out
                  /\ \A z \in FileSizes : FileSpecifies(s, z) => Has(Out, s, z)

C7_Witness ==
    /\ pc = "done"
    /\ fileStatus = "applied"
    /\ AllHaveId
    /\ \A i \in DOMAIN CatRecs : CatRecs[i].id \notin {"newstyle", "partybag"}
    /\ FileSpecifies("newstyle", "T")
    /\ Has(Out, "newstyle", "T")
    /\ Has(Out, "partybag", "ONESIZE")

---------------------------------------------------------------------------
(* C8 *)

\* C8: every completed run writes the styles content the first completed run
\* wrote from the same catalog, table and override file, whatever the clock
\* reads and whatever output document the run found on disk.
C8_StylesIndependentOfClockAndOutput ==
    pc = "done" =>
        /\ first.set
        /\ Out = first.styles
        /\ outFile.updatedAt = clock

C8_Witness ==
    /\ pc = "done"
    /\ clock > 1
    /\ priorOut = StaleDoc
    /\ outFile.updatedAt = clock
    /\ fileStatus = "failed"
    /\ "retired" \notin DOMAIN Out

---------------------------------------------------------------------------
(* C9 *)

\* C9: BUILTIN_OVERRIDES always holds the values of its literal, and the
\* working map never refers to a size mapping of the table.
C9_BuiltinTableUntouched ==
    /\ \A s \in DOMAIN BUILTIN_OVERRIDES :
          /\ BuiltinRef(s) \in DOMAIN heap
          /\ heap[BuiltinRef(s)] = BUILTIN_OVERRIDES[s]
    /\ \A s \in DOMAIN availability : availability[s][1] = "avail"

C9_Witness ==
    /\ pc = "done"
    /\ fileStatus = "applied"
    /\ AllHaveId
    /\ \A i \in DOMAIN CatRecs : CatRecs[i].id # "sapphire"
    /\ FileSpecifies("sapphire", "T")
    /\ Out["sapphire"]["T"] = "true"
    /\ BUILTIN_OVERRIDES["sapphire"]["T"] = "false"

---------------------------------------------------------------------------
(* C10 *)

\* the extra argument of the call made at pc, as the nested mapping it is;
\* a style whose value is not a mapping specifies no pair
ExtraStyles == IF pc = "builtin" THEN DOMAIN BUILTIN_OVERRIDES
               ELSE {s \in FileStyles : FileNames(s)}
ExtraSizes(s) == IF pc = "builtin" THEN DOMAIN BUILTIN_OVERRIDES[s]
                 ELSE {z \in FileSizes : FileSpecifies(s, z)}
ExtraVal(s, z) == IF pc = "builtin" THEN BUILTIN_OVERRIDES[s][z] ELSE FileVal(s, z)
ExtraSpecifies(s, z) == s \in ExtraStyles /\ z \in ExtraSizes(s)

\* merge_overrides is called at this step
MergeCalled == pc = "builtin" \/ (pc = "file" /\ ovrFile.kind = "object")

\* the call returns instead of raising
MergeReturned == pc = "builtin" \/ fileStatus' = "applied"

\* the working map after the step
WorkingAfter == [s \in DOMAIN availability' |-> heap'[availability'[s]]]

\* the same extra applied once more to the result
AppliedAgain ==
    IF pc = "builtin"
    THEN merge_overrides(availability', heap', BuiltinItems)
    ELSE merge_overrides(availability', FileHeap(ovrFile.entries, heap'),
                         FileItems(ovrFile.entries))

SizesOf(m, s) == IF s \in DOMAIN m THEN DOMAIN m[s] ELSE {}

MergeFrame(w, wa) ==
    \* nothing is removed, and what extra does not specify keeps its value
    /\ \A s \in DOMAIN w :
          /\ s \in DOMAIN wa
          /\ \A z \in DOMAIN w[s] :
                /\ z \in DOMAIN wa[s]
                /\ ~ExtraSpecifies(s, z) => wa[s][z] = w[s][z]
    \* nothing appears that extra does not name
    /\ \A s \in DOMAIN wa :
          /\ s \in DOMAIN w \/ s \in ExtraStyles
          /\ \A z \in DOMAIN wa[s] :
                \/ Has(w, s, z) /\ wa[s][z] = w[s][z]
                \/ ExtraSpecifies(s, z) /\ wa[s][z] = bool(ExtraVal(s, z))
    \* on return the key sets are the unions and the pairs of extra are set
    /\ MergeReturned =>
          /\ DOMAIN wa = (DOMAIN w) \cup ExtraStyles
          /\ \A s \in ExtraStyles :
                /\ DOMAIN wa[s] = SizesOf(w, s) \cup ExtraSizes(s)
                /\ \A z \in ExtraSizes(s) : wa[s][z] = bool(ExtraVal(s, z))
    \* a second application changes nothing
    /\ Serialise(AppliedAgain.base, AppliedAgain.heap) = wa

\* C10: a call of merge_overrides removes no style and no size, leaves every
\* pair extra does not specify at its value, sets the pairs extra specifies
\* to their boolean, makes the key sets the union of the prior keys and the
\* keys of extra when it returns, and changes nothing when repeated.
C10_MergeFrame ==
    [][MergeCalled => LET w == Working  wa == WorkingAfter IN MergeFrame(w, wa)]_vars

C10_Witness ==
    /\ pc = "write"
    /\ fileStatus = "applied"
    /\ Has(afterBuiltin, "sapphire", "XL")
    /\ FileSpecifies("sapphire", "T")
    /\ Working["sapphire"]["T"] # afterBuiltin["sapphire"]["T"]
    /\ Working["sapphire"]["XL"] = afterBuiltin["sapphire"]["XL"]
    /\ "newstyle" \notin DOMAIN afterBuiltin
    /\ FileSpecifies("newstyle", "T")
    /\ Has(Working, "newstyle", "T")

TypeOK ==
    /\ pc \in {"load", "seed", "builtin", "file", "write", "done", "crashed"}
    /\ exitCode \in {-1, 0, 1}
    /\ clock \in 1..MaxClock
    /\ \A s \in DOMAIN availability : availability[s] \in DOMAIN heap
=============================================================================
